---- MODULE Spec2Model ----
(***************************************************************************)
(* Model of POPRES-Analysis/mle_estim_error.py: class MLE_estim_error, the *)
(* binned maximum-likelihood estimator of block sharing with modelled      *)
(* detection error.                                                        *)
(*                                                                         *)
(* Numbers.  The program computes in floating point.  The model keeps      *)
(* every length in integer units of half a bin width of the shipped        *)
(* configuration (1 unit = 0.05 cM), so that bin edges, midpoints and      *)
(* 0.5 * bin_width are exact integers, and keeps the order comparisons     *)
(* and the insertion-point searches of the code exactly.  The calibrated   *)
(* closed forms built on exp, sqrt and the Bessel function kv cannot be    *)
(* written in integers; they are replaced by small integer-valued          *)
(* stand-ins of the same arguments and the same case structure.  np.log    *)
(* is kept symbolic: a log-likelihood carries the list of the arguments    *)
(* whose logarithms are summed.                                            *)
(*                                                                         *)
(* Arrays are sequences; Python's 0-based indices are kept in the state    *)
(* (min_ind, max_ind) and translated by At and Slice.                      *)
(***************************************************************************)
EXTENDS Integers, Sequences, FiniteSets, TLC

VARIABLES model, status, call, ret, density_calls, fit_result, pc, targs, tret

vars == <<model, status, call, ret, density_calls, fit_result, pc, targs, tret>>

-----------------------------------------------------------------------------
(* Bounds of the model.                                                    *)

\* longest list of observed block lengths handed to one pairwise_ll call
MaxBlocks == 1
\* most parameter vectors the optimizer evaluates in one fit() call
MaxTrials == 2

-----------------------------------------------------------------------------
(* Python and numpy primitives.                                            *)

Min(a, b) == IF a <= b THEN a ELSE b

Max(a, b) == IF a >= b THEN a ELSE b

\* ceil(a / b) for b # 0
CeilDiv(a, b) == IF b > 0 THEN -((-a) \div b) ELSE -(a \div (-b))

\* s[j] is defined (Python index j, negative indices count from the end)
InRange(s, j) == -Len(s) <= j /\ j < Len(s)

\* s[j], Python indexing
At(s, j) == IF j >= 0 THEN s[j + 1] ELSE s[Len(s) + j + 1]

\* s[a:b] for a, b >= 0: the slice is clipped to the array
Slice(s, a, b) == SubSeq(s, Min(a, Len(s)) + 1, Min(b, Len(s)))

RECURSIVE SumSeq(_)
\* np.sum: the sum of the two halves (pairwise summation)
SumSeq(s) ==
    IF Len(s) = 0 THEN 0
    ELSE IF Len(s) = 1 THEN s[1]
    ELSE LET h == Len(s) \div 2
         IN  SumSeq(SubSeq(s, 1, h)) + SumSeq(SubSeq(s, h + 1, Len(s)))

RECURSIVE bisect_left_loop(_, _, _, _)
bisect_left_loop(a, x, lo, hi) ==
    IF lo < hi
    THEN LET mid == (lo + hi) \div 2
         IN  IF At(a, mid) < x
             THEN bisect_left_loop(a, x, mid + 1, hi)
             ELSE bisect_left_loop(a, x, lo, mid)
    ELSE lo

\* bisect.bisect_left: the leftmost insertion point of x in the sorted a
bisect_left(a, x) == bisect_left_loop(a, x, 0, Len(a))

RECURSIVE bisect_right_loop(_, _, _, _)
bisect_right_loop(a, x, lo, hi) ==
    IF lo < hi
    THEN LET mid == (lo + hi) \div 2
         IN  IF x < At(a, mid)
             THEN bisect_right_loop(a, x, lo, mid)
             ELSE bisect_right_loop(a, x, mid + 1, hi)
    ELSE lo

\* bisect.bisect_right: the rightmost insertion point of x in the sorted a
bisect_right(a, x) == bisect_right_loop(a, x, 0, Len(a))

\* np.arange(start, stop, step) for step # 0 (step = 0 raises, see create_bins)
arange(start, stop, step) ==
    LET n == Max(0, CeilDiv(stop - start, step))
    IN  [i \in 1..n |-> start + (i - 1) * step]

\* np.zeros((k, k)): row j, column i is zeros[j][i]
zeros(k) == [j \in 1..k |-> [i \in 1..k |-> 0]]

\* np.dot(mat, vec)
dot(mat, vec) ==
    [j \in 1..Len(mat) |-> SumSeq([i \in 1..Len(vec) |-> mat[j][i] * vec[i]])]

-----------------------------------------------------------------------------
(* The functions for calculating errors (Ralph/Coop 2013).  Each keeps the *)
(* arguments and the case structure of the source; the real-valued closed  *)
(* forms are replaced by integer stand-ins (probabilities in tenths,       *)
(* exponentials on a scale of 100).                                        *)

\* the literal 1 (cM) of the truncation terms, in model units
OneCM == 20

\* stand-in for np.exp(-rate * d)
exp_neg(rate, d) == 1000 \div (10 + rate * Max(d, 0))

\* probability (tenths) of a true block of length l being unobserved
censor_prob(l) == 10 \div (1 + (l * l) \div 100)

\* probability (tenths) that the observed block is shorter than the true one
prob_down(l) ==
    LET l1 == Max(l - OneCM, 0)
    IN  3 - 3 \div (1 + l1 \div 10)

up_rate(l) == 1

down_rate(l) == IF l > 0 THEN Min(12, 1 + 110 \div l) ELSE 12

\* false positive rate per pair at length l
fp_rate(l) == 3587 \div (100 + l * l)

-----------------------------------------------------------------------------
(* Block-sharing densities a caller hands to the constructor.  Both read   *)
(* params[0] (C) and params[1] (sigma) and map elementwise over the vector *)
(* of lengths l; a parameter vector shorter than 2 makes them raise        *)
(* IndexError.  The Bessel function kv is external: integer stand-ins.     *)

dd_density(l, r, params) ==
    LET C == At(params, 0)
        sigma == At(params, 1)
    IN  [i \in 1..Len(l) |-> (C * (100 * r * r + 10 * sigma)) \div (1 + Max(l[i], 0))]

uniform_density(l, r, params) ==
    LET C == At(params, 0)
        sigma == At(params, 1)
    IN  [i \in 1..Len(l) |-> (C * (100 * r + 10 * sigma)) \div (2 + Max(l[i], 0))]

\* the density functions the model draws bl_dens_fun from
DensityFuns == {"dd_density", "uniform_density"}

-----------------------------------------------------------------------------
(* class MLE_estim_error                                                   *)

\* what a method hands back: the object after the call, the value returned,
\* the exception raised ("none" when it returns), and the number of calls of
\* the density function it made
Result(self, val, exc, calls) ==
    [self |-> self, val |-> val, exc |-> exc, calls |-> calls]

\* the class attributes of lines 22-36 under a bin and window configuration
ClassAttributes(cfg) ==
    [min_b |-> cfg.min_b, max_b |-> cfg.max_b, bin_width |-> cfg.bin_width,
     min_len |-> cfg.min_len, max_len |-> cfg.max_len,
     min_ind |-> 0, max_ind |-> 0, mid_bins |-> <<>>,
     fp_rate |-> <<>>, theoretical_shr |-> <<>>, trans_mat |-> zeros(2),
     full_shr_pr |-> <<>>, density_fun |-> "none", start_params |-> <<>>,
     error_model |-> TRUE, estimates |-> <<>>, endog |-> <<>>, exog |-> <<>>]

\* the configuration the class ships with: min_b, max_b = 0, 30.1,
\* bin_width = 0.1, min_len, max_len = 4.0, 20.0
DefaultConfig ==
    [min_b |-> 0, max_b |-> 602, bin_width |-> 2, min_len |-> 80, max_len |-> 400]

\* 0.5 * self.bin_width (bin widths are even numbers of units)
half_width(self) == self.bin_width \div 2

\* mid_bins - 0.5 * bin_width: the bin edges as the methods recompute them
edges_of(self) == [i \in 1..Len(self.mid_bins) |-> self.mid_bins[i] - half_width(self)]

\* create_bins with the window indices searched by bisect_right: a faulty
\* variant, for testing that the grid properties depend on the search used
create_bins_right(self) ==
    IF self.bin_width = 0
    THEN Result(self, "None", "ZeroDivisionError", 0)
    ELSE LET bins == arange(self.min_b, self.max_b, self.bin_width)
             mid == [i \in 1..Len(bins) |-> bins[i] + half_width(self)]
         IN  Result([self EXCEPT !.min_ind = bisect_right(bins, self.min_len),
                                 !.max_ind = bisect_right(bins, self.max_len),
                                 !.mid_bins = mid,
                                 !.trans_mat = zeros(Len(mid))],
                    "None", "none", 0)

\* np.arange raises for a step of 0 (ZeroDivisionError, or ValueError in some
\* numpy versions); otherwise the bins, the window indices, the midpoints and
\* an empty transition matrix are stored.  No parameter is validated.
create_bins(self) ==
    IF self.bin_width = 0
    THEN Result(self, "None", "ZeroDivisionError", 0)
    ELSE LET bins == arange(self.min_b, self.max_b, self.bin_width)
             mid == [i \in 1..Len(bins) |-> bins[i] + half_width(self)]
         IN  Result([self EXCEPT !.min_ind = bisect_left(bins, self.min_len),
                                 !.max_ind = bisect_left(bins, self.max_len),
                                 !.mid_bins = mid,
                                 !.trans_mat = zeros(Len(mid))],
                    "None", "none", 0)

\* one entry trans_mat[j, i] (0-based j, i) of the transition matrix
trans_entry(self, j, i) ==
    LET x == At(self.mid_bins, i)
        y == At(self.mid_bins, j)
        pr_detect == 10 - censor_prob(x)
        norm == 101 - exp_neg(down_rate(x), x - OneCM)
    IN  IF j < i
        THEN (pr_detect * prob_down(x) * down_rate(x) * exp_neg(down_rate(x), x - y)
                 * self.bin_width) \div norm
        ELSE IF j > i
        THEN (pr_detect * (10 - prob_down(x)) * up_rate(x)
                 * exp_neg(up_rate(x), y - Max(x, OneCM)) * self.bin_width) \div 100
        ELSE LET trans_pr_d == (prob_down(x) * down_rate(x) * exp_neg(down_rate(x), 0) * 100)
                                    \div norm
                 trans_pr_u == (10 - prob_down(x)) * up_rate(x) * exp_neg(up_rate(x), 0)
             IN  (pr_detect * (trans_pr_d + trans_pr_u) * self.bin_width) \div 200

calculate_trans_mat(self) ==
    LET k == Len(self.trans_mat)
    IN  [self EXCEPT !.trans_mat =
            [j \in 1..k |-> [i \in 1..k |-> trans_entry(self, j - 1, i - 1)]]]

\* MLE_estim_error(bl_dens_fun, start_params, pw_dist, pw_IBD, pw_nr, error_model)
\* on a class holding the attributes cls
__init__(cls, bl_dens_fun, start_params, pw_dist, pw_IBD, pw_nr, error_model) ==
    LET s0 == [cls EXCEPT !.exog = [i \in 1..Len(pw_dist) |-> <<pw_dist[i], pw_nr[i]>>],
                          !.endog = pw_IBD]
        b == create_bins(s0)
        s1 == b.self
        s2 == [s1 EXCEPT !.fp_rate = [i \in 1..Len(s1.mid_bins) |->
                                         fp_rate(s1.mid_bins[i]) * s1.bin_width],
                         !.density_fun = bl_dens_fun,
                         !.start_params = start_params,
                         !.error_model = error_model]
    IN  IF b.exc # "none" THEN Result(cls, "None", b.exc, 0)
        ELSE Result(IF error_model = TRUE THEN calculate_trans_mat(s2) ELSE s2,
                    "None", "none", 0)

\* self.density_fun(l, r, params); reading params[0] and params[1] raises
\* IndexError on a shorter vector
block_shr_density(self, l, r, params) ==
    IF ~InRange(params, 0) \/ ~InRange(params, 1)
    THEN Result(self, "None", "IndexError", 1)
    ELSE Result(self,
                IF self.density_fun = "dd_density"
                THEN dd_density(l, r, params)
                ELSE uniform_density(l, r, params),
                "none", 1)

\* the expected sharing per bin: density at the midpoints times bin_width
calculate_thr_shr(self, r, params) ==
    LET bd == block_shr_density(self, self.mid_bins, r, params)
    IN  IF bd.exc # "none" THEN bd
        ELSE Result([self EXCEPT !.theoretical_shr =
                        [i \in 1..Len(bd.val) |-> bd.val[i] * self.bin_width]],
                    "None", "none", 1)

\* calculate_full_bin_prob adding into self.fp_rate in place: a faulty variant,
\* for testing that the frame property sees a write to the error profile
calculate_full_bin_prob_inplace(self) ==
    IF self.error_model = TRUE
    THEN IF Len(self.trans_mat) # Len(self.theoretical_shr)
         THEN Result(self, "None", "ValueError", 0)
         ELSE LET d == dot(self.trans_mat, self.theoretical_shr)
                  sum == [i \in 1..Len(d) |-> d[i] + self.fp_rate[i]]
              IN  Result([self EXCEPT !.fp_rate = sum, !.full_shr_pr = sum],
                         "None", "none", 0)
    ELSE Result([self EXCEPT !.full_shr_pr = self.theoretical_shr], "None", "none", 0)

\* calculate_full_bin_prob applying the error model whatever error_model says:
\* a faulty variant, for testing the property of the model without error
calculate_full_bin_prob_always(self) ==
    IF Len(self.trans_mat) # Len(self.theoretical_shr)
    THEN Result(self, "None", "ValueError", 0)
    ELSE LET d == dot(self.trans_mat, self.theoretical_shr)
         IN  Result([self EXCEPT !.full_shr_pr =
                        [i \in 1..Len(d) |-> d[i] + self.fp_rate[i]]],
                    "None", "none", 0)

\* the full probabilities per bin: transition matrix times theoretically
\* expected plus false positives, or the theoretical sharing alone.  np.dot
\* raises ValueError when the shapes are not aligned.
calculate_full_bin_prob(self) ==
    IF self.error_model = TRUE
    THEN IF Len(self.trans_mat) # Len(self.theoretical_shr)
         THEN Result(self, "None", "ValueError", 0)
         ELSE LET d == dot(self.trans_mat, self.theoretical_shr)
              IN  Result([self EXCEPT !.full_shr_pr =
                             [i \in 1..Len(d) |-> d[i] + self.fp_rate[i]]],
                         "None", "none", 0)
    ELSE Result([self EXCEPT !.full_shr_pr = self.theoretical_shr], "None", "none", 0)

\* a log-likelihood: the sum of np.log over the listed arguments plus no_shr
LogLike(logs, no_shr) == [inf |-> FALSE, logs |-> logs, no_shr |-> no_shr]

\* -np.inf
NegInf == [inf |-> TRUE, logs |-> <<>>, no_shr |-> 0]

\* bins of pairwise_ll: the edges of the window, mid_bins[min_ind:max_ind + 1]
\* less half a bin width
window_edges(self) ==
    LET m == Slice(self.mid_bins, self.min_ind, self.max_ind + 1)
    IN  [i \in 1..Len(m) |-> m[i] - half_width(self)]

\* the cut with the lower bound left out: a faulty variant, for testing the
\* property of pairs without blocks in the window
blocks_of_interest_upper(bins, l) ==
    LET keep(x) == x <= At(bins, -1)
    IN  SelectSeq(l, keep)

\* l[(l >= bins[0]) * (l <= bins[-1])]: the blocks of interest
blocks_of_interest(bins, l) ==
    LET keep(x) == x >= At(bins, 0) /\ x <= At(bins, -1)
    IN  SelectSeq(l, keep)

\* [(bisect_left(bins, x) - 1) for x in l]
block_indices(bins, l) == [i \in 1..Len(l) |-> bisect_left(bins, l[i]) - 1]

\* lines 88-96 of pairwise_ll: the value from the sharing probabilities stored
\* on the object; shr_pr[indices] raises IndexError outside the array
pairwise_ll_value(self, l, pw_nr, calls) ==
    LET bins == window_edges(self)
        shr_pr == Slice(self.full_shr_pr, self.min_ind, self.max_ind)
        log_pr_no_shr == -SumSeq(shr_pr) * pw_nr
        indices == block_indices(bins, l)
    IN  IF Len(l) > 0
        THEN IF \E i \in 1..Len(indices) : ~InRange(shr_pr, indices[i])
             THEN Result(self, "None", "IndexError", calls)
             ELSE Result(self,
                         LogLike([i \in 1..Len(indices) |-> At(shr_pr, indices[i])],
                                 log_pr_no_shr),
                         "none", calls)
        ELSE Result(self, LogLike(<<>>, log_pr_no_shr), "none", calls)

\* log likelihood of one row of data; exog is <<r, pw_nr>>.  bins[0] raises
\* IndexError on an empty window.  t and f are what calculate_thr_shr and
\* calculate_full_bin_prob hand back, each call made once.
pairwise_ll(self, l, exog, params) ==
    LET r == exog[1]
        pw_nr == exog[2]
        bins == window_edges(self)
    IN  IF bins = <<>> THEN Result(self, "None", "IndexError", 0)
        ELSE CHOOSE res \in
                 { IF t.exc # "none" THEN t
                   ELSE CHOOSE res2 \in
                            { IF f.exc # "none"
                              THEN Result(f.self, "None", f.exc, t.calls)
                              ELSE pairwise_ll_value(f.self, blocks_of_interest(bins, l),
                                                     pw_nr, t.calls)
                              : f \in {calculate_full_bin_prob(t.self)} } : TRUE
                   : t \in {calculate_thr_shr(self, r, params)} } : TRUE

RECURSIVE loglikeobs_loop(_, _, _, _, _)
\* the list comprehension of line 63 from row i on, ll collecting the values
loglikeobs_loop(self, params, i, ll, calls) ==
    IF i > Len(self.endog) THEN Result(self, ll, "none", calls)
    ELSE CHOOSE res \in
             { IF p.exc # "none" THEN Result(p.self, "None", p.exc, calls + p.calls)
               ELSE loglikeobs_loop(p.self, params, i + 1, Append(ll, p.val),
                                    calls + p.calls)
               : p \in {pairwise_ll(self, self.endog[i], self.exog[i], params)} } : TRUE

\* loglikeobs guarding only against both parameters being <= 0: a faulty
\* variant, for testing the guard property
loglikeobs_both(self, params) ==
    IF ~InRange(params, 0) \/ ~InRange(params, 1)
    THEN Result(self, "None", "IndexError", 0)
    ELSE LET C == At(params, 0)
             sigma == At(params, 1)
         IN  IF C <= 0 /\ sigma <= 0
             THEN Result(self, [i \in 1..Len(self.endog) |-> NegInf], "none", 0)
             ELSE loglikeobs_loop(self, params, 1, <<>>, 0)

\* the vector of log likelihoods, one per observation
loglikeobs(self, params) ==
    IF ~InRange(params, 0) \/ ~InRange(params, 1)
    THEN Result(self, "None", "IndexError", 0)
    ELSE LET C == At(params, 0)
             sigma == At(params, 1)
         IN  IF C <= 0 \/ sigma <= 0
             THEN Result(self, [i \in 1..Len(self.endog) |-> NegInf], "none", 0)
             ELSE loglikeobs_loop(self, params, 1, <<>>, 0)

\* start_params=None of fit
None == <<>>

RECURSIVE optimizer_loop(_, _, _, _)
\* the optimizer's evaluations of the objective at the points from i on
optimizer_loop(self, points, i, calls) ==
    IF i > Len(points) THEN Result(self, "None", "none", calls)
    ELSE CHOOSE res \in
             { IF e.exc # "none" THEN Result(e.self, "None", e.exc, calls + e.calls)
               ELSE optimizer_loop(e.self, points, i + 1, calls + e.calls)
               : e \in {loglikeobs(self, points[i])} } : TRUE

\* super().fit(start_params=...): the external optimizer evaluates loglikeobs
\* at the start vector and at the trial vectors it chooses, and returns one of
\* the vectors it evaluated as the estimate (points[best])
GenericLikelihoodModel_fit(self, start_params, trials, best) ==
    LET points == <<start_params>> \o trials
    IN  CHOOSE res \in
            { IF o.exc # "none" THEN o
              ELSE Result(o.self, [params |-> points[best]], "none", o.calls)
              : o \in {optimizer_loop(self, points, 1, 0)} } : TRUE

\* fit: the optimizer's estimate is stored as self.estimates
fit(self, start_params, trials, best) ==
    LET sp == IF start_params = None THEN self.start_params ELSE start_params
    IN  CHOOSE res \in
            { IF f.exc # "none" THEN f
              ELSE Result([f.self EXCEPT !.estimates = f.val.params], f.val, "none",
                          f.calls)
              : f \in {GenericLikelihoodModel_fit(self, sp, trials, best)} } : TRUE

\* the default params=[0, ] of get_bl_shr_interval
DefaultParams == <<0>>

\* the stored estimate whatever is supplied: a faulty variant, for testing
\* the property of explicitly supplied parameters
interval_params_stored(self, params) == self.estimates

\* the parameters get_bl_shr_interval evaluates with
interval_params(self, params) ==
    IF At(params, 0) = 0 THEN self.estimates ELSE params

\* range(ind - 1, ind1 + 1): the bin indices get_bl_shr_interval averages over
interval_range(self, interval) ==
    LET bins == edges_of(self)
        ind == bisect_right(bins, interval[1])
        ind1 == bisect_left(bins, interval[2])
    IN  [n \in 1..Max(0, ind1 - ind + 2) |-> ind - 2 + n]

\* a quotient num / den of the float arithmetic, kept exact
Quot(num, den) == [num |-> num, den |-> den]

RECURSIVE get_bl_shr_interval_loop(_, _, _, _, _, _, _)
\* the loop of lines 158-163 from r[i] on
get_bl_shr_interval_loop(self, interval, r, params, i, estims, calls) ==
    IF i > Len(r) THEN Result(self, estims, "none", calls)
    ELSE CHOOSE res \in
           { IF t.exc # "none" THEN Result(t.self, "None", t.exc, calls + t.calls)
             ELSE CHOOSE res2 \in
               { IF f.exc # "none" THEN Result(f.self, "None", f.exc, calls + t.calls)
                 ELSE IF \E n \in 1..Len(js) : ~InRange(f.self.full_shr_pr, js[n])
                 THEN Result(f.self, "None", "IndexError", calls + t.calls)
                 ELSE LET total == SumSeq([n \in 1..Len(js) |->
                                              At(f.self.full_shr_pr, js[n])])
                          \* np.mean(...) * (interval[1] - interval[0]) / bin_width
                          e == Quot(total * (interval[2] - interval[1]),
                                    Len(js) * self.bin_width)
                      IN  get_bl_shr_interval_loop(f.self, interval, r, params, i + 1,
                                                   Append(estims, e), calls + t.calls)
                 : f \in {calculate_full_bin_prob(t.self)},
                   js \in {interval_range(self, interval)} } : TRUE
             : t \in {calculate_thr_shr(self, r[i], params)} } : TRUE

\* the estimated block sharing in interval = <<a, b>> at each distance of r
get_bl_shr_interval(self, interval, r, params) ==
    get_bl_shr_interval_loop(self, interval, r, interval_params(self, params),
                             1, <<>>, 0)

-----------------------------------------------------------------------------
(* The inputs the model draws from.                                        *)

\* bin and window configurations of the class attributes, in coarse bins
ConfigA == [min_b |-> 0, max_b |-> 45, bin_width |-> 10, min_len |-> 10, max_len |-> 30]

ConfigWide == [min_b |-> 0, max_b |-> 90, bin_width |-> 20, min_len |-> 20, max_len |-> 60]

\* min_len below min_b
ConfigLowMin == [ConfigA EXCEPT !.min_len = -10]

\* max_len not below max_b
ConfigHighMax == [ConfigA EXCEPT !.max_len = 50]

ConfigZeroWidth == [ConfigA EXCEPT !.bin_width = 0]

ConfigNegWidth == [ConfigA EXCEPT !.bin_width = -10]

Configs ==
    {ConfigA, ConfigWide, ConfigLowMin, ConfigHighMax, ConfigZeroWidth, ConfigNegWidth}

\* min_len and max_len inside [min_b, max_b) and a bin width above 0
WellFormed(c) ==
    /\ c.bin_width > 0
    /\ c.min_b <= c.min_len /\ c.min_len < c.max_b
    /\ c.min_b <= c.max_len /\ c.max_len < c.max_b

\* the constructor calls <<configuration, bl_dens_fun, error_model>> explored
Constructions ==
    { <<ConfigA, "dd_density", TRUE>>, <<ConfigA, "uniform_density", FALSE>>,
      <<ConfigWide, "uniform_density", TRUE>>, <<ConfigLowMin, "dd_density", TRUE>>,
      <<ConfigHighMax, "uniform_density", FALSE>>, <<ConfigZeroWidth, "dd_density", TRUE>>,
      <<ConfigNegWidth, "dd_density", TRUE>> }

\* observed block lengths: below the window of ConfigA, on its lower edge,
\* inside a bin, on its upper edge
Lengths == {5, 10, 25, 30}

\* the lists of block lengths of one pair
BlockLists == UNION { [1..n -> Lengths] : n \in 0..MaxBlocks }

\* rows <<r, pw_nr>> of exog
Exogs == { <<1, 2>>, <<3, 1>> }

\* pairwise distances
Dists == {1, 3}

\* parameter vectors <<C, sigma>>
Params == { <<0, 1>>, <<1, -1>>, <<1, 1>>, <<2, 3>> }

\* the vectors with C > 0 and sigma > 0, which loglikeobs hands on to pairwise_ll
ValidParams == { p \in Params : p[1] > 0 /\ p[2] > 0 }

\* the vectors an optimizer tries after the start vector
TrialParams == { <<0, 1>>, <<2, 3>> }

\* the params arguments of the interval query
QueryParams == { <<0>>, <<0, 1>>, <<1, 1>>, <<2, 3>> }

\* the data set <<pw_dist, pw_IBD, pw_nr>> a model is constructed on
Datasets ==
    { << <<1, 3>>, << <<10>>, <<25, 30>> >>, <<2, 1>> >> }

\* the length intervals <<a, b>> of the interval query: a bin of ConfigA, a
\* bin of ConfigWide, the last bin of ConfigA
Intervals == { <<10, 20>>, <<20, 40>>, <<40, 50>> }

\* the arrays of distances of the interval query
DistLists == { <<1>>, <<3, 1>> }

\* the trial vectors an optimizer evaluates after the start vector
TrialSeqs == UNION { [1..n -> TrialParams] : n \in 0..(MaxTrials - 1) }

Threads == {1, 2}

-----------------------------------------------------------------------------
(* The state machine.  model is the instance; status is "none" when the    *)
(* constructor returned and the exception it raised otherwise; call and    *)
(* ret are the last method call and what it returned or raised;            *)
(* density_calls counts the density-function calls of that call;           *)
(* fit_result is the estimate of the last FitResult handed to the caller.  *)
(* pc, targs and tret belong to the concurrent evaluations.                *)

NoCall == [op |-> "__init__"]

Construct(cfg, dens, em) ==
    \E data \in Datasets :
        LET c == __init__(ClassAttributes(cfg), dens, <<1, 1>>,
                          data[1], data[2], data[3], em)
        IN  /\ model = c.self
            /\ status = c.exc
            /\ call = NoCall
            /\ ret = [val |-> "None", exc |-> c.exc]
            /\ density_calls = 0
            /\ fit_result = <<>>
            /\ pc = [t \in Threads |-> "idle"]
            /\ targs = [t \in Threads |-> <<>>]
            /\ tret = [t \in Threads |-> <<>>]

Init == \E c \in Constructions : Construct(c[1], c[2], c[3])

\* the effect of a method call c (a Result) made as call record op
Returns(op, result) ==
    \E c \in {result} :
        /\ model' = c.self
        /\ call' = op
        /\ ret' = [val |-> c.val, exc |-> c.exc]
        /\ density_calls' = c.calls
        /\ fit_result' = IF op.op = "fit" /\ c.exc = "none" THEN c.val.params
                          ELSE fit_result
        /\ UNCHANGED <<status, pc, targs, tret>>

LogLikeObs ==
    /\ status = "none"
    /\ \E params \in Params :
          Returns([op |-> "loglikeobs", params |-> params], loglikeobs(model, params))

Fit ==
    /\ status = "none"
    /\ \E start \in {None, <<2, 3>>}, trials \in TrialSeqs :
          \E best \in 1..(Len(trials) + 1) :
             Returns([op |-> "fit", start_params |-> start, trials |-> trials,
                      best |-> best],
                     fit(model, start, trials, best))

PairwiseLL ==
    /\ status = "none"
    /\ \E l \in BlockLists, exog \in Exogs, params \in ValidParams :
          Returns([op |-> "pairwise_ll", l |-> l, exog |-> exog, params |-> params],
                  pairwise_ll(model, l, exog, params))

CalculateThrShr ==
    /\ status = "none"
    /\ \E r \in Dists, params \in Params :
          Returns([op |-> "calculate_thr_shr", r |-> r, params |-> params],
                  calculate_thr_shr(model, r, params))

CalculateFullBinProb ==
    /\ status = "none"
    /\ Returns([op |-> "calculate_full_bin_prob"], calculate_full_bin_prob(model))

GetBlShrInterval ==
    /\ status = "none"
    /\ \E interval \in Intervals, r \in DistLists, params \in QueryParams :
          Returns([op |-> "get_bl_shr_interval", interval |-> interval, r |-> r,
                   params |-> params],
                  get_bl_shr_interval(model, interval, r, params))

Next ==
    \/ LogLikeObs
    \/ Fit
    \/ PairwiseLL
    \/ CalculateThrShr
    \/ CalculateFullBinProb
    \/ GetBlShrInterval

Spec == Init /\ [][Next]_vars

-----------------------------------------------------------------------------
(* Concurrent evaluations.  Each thread evaluates pairwise_ll for one row  *)
(* of the data and one trial vector, statement by statement, on the one    *)
(* model instance; the statements of different threads interleave.         *)

\* lines 80-84: the arguments are unpacked and the blocks of interest cut out
T_Call(t) ==
    /\ status = "none"
    /\ pc[t] = "idle"
    /\ \E i \in 1..Len(model.endog), params \in ValidParams :
          LET bins == window_edges(model)
          IN  IF bins = <<>>
              THEN /\ pc' = [pc EXCEPT ![t] = "done"]
                   /\ targs' = [targs EXCEPT ![t] =
                         [l |-> model.endog[i], kept |-> <<>>,
                          exog |-> model.exog[i], params |-> params]]
                   /\ tret' = [tret EXCEPT ![t] = [val |-> "None", exc |-> "IndexError"]]
              ELSE /\ pc' = [pc EXCEPT ![t] = "thr"]
                   /\ targs' = [targs EXCEPT ![t] =
                         [l |-> model.endog[i],
                          kept |-> blocks_of_interest(bins, model.endog[i]),
                          exog |-> model.exog[i], params |-> params]]
                   /\ UNCHANGED tret
    /\ UNCHANGED <<model, status, call, ret, density_calls, fit_result>>

\* line 86: self.calculate_thr_shr(r, params) writes self.theoretical_shr
T_Thr(t) ==
    /\ pc[t] = "thr"
    /\ \E c \in {calculate_thr_shr(model, targs[t].exog[1], targs[t].params)} :
          IF c.exc # "none"
          THEN /\ pc' = [pc EXCEPT ![t] = "done"]
               /\ tret' = [tret EXCEPT ![t] = [val |-> "None", exc |-> c.exc]]
               /\ UNCHANGED model
          ELSE /\ model' = c.self
               /\ pc' = [pc EXCEPT ![t] = "full"]
               /\ UNCHANGED tret
    /\ UNCHANGED <<status, call, ret, density_calls, fit_result, targs>>

\* line 87: self.calculate_full_bin_prob() reads self.theoretical_shr and
\* writes self.full_shr_pr
T_Full(t) ==
    /\ pc[t] = "full"
    /\ \E c \in {calculate_full_bin_prob(model)} :
          IF c.exc # "none"
          THEN /\ pc' = [pc EXCEPT ![t] = "done"]
               /\ tret' = [tret EXCEPT ![t] = [val |-> "None", exc |-> c.exc]]
               /\ UNCHANGED model
          ELSE /\ model' = c.self
               /\ pc' = [pc EXCEPT ![t] = "value"]
               /\ UNCHANGED tret
    /\ UNCHANGED <<status, call, ret, density_calls, fit_result, targs>>

\* lines 88-96: self.full_shr_pr is read and the log likelihood returned
T_Value(t) ==
    /\ pc[t] = "value"
    /\ \E c \in {pairwise_ll_value(model, targs[t].kept, targs[t].exog[2], 1)} :
          /\ tret' = [tret EXCEPT ![t] = [val |-> c.val, exc |-> c.exc]]
          /\ pc' = [pc EXCEPT ![t] = "done"]
    /\ UNCHANGED <<model, status, call, ret, density_calls, fit_result, targs>>

\* the caller collects the value; the thread is free for another evaluation
T_Return(t) ==
    /\ pc[t] = "done"
    /\ pc' = [pc EXCEPT ![t] = "idle"]
    /\ targs' = [targs EXCEPT ![t] = <<>>]
    /\ tret' = [tret EXCEPT ![t] = <<>>]
    /\ UNCHANGED <<model, status, call, ret, density_calls, fit_result>>

NextConc ==
    \E t \in Threads :
        \/ T_Call(t)
        \/ T_Thr(t)
        \/ T_Full(t)
        \/ T_Value(t)
        \/ T_Return(t)

SpecConc == Init /\ [][NextConc]_vars

-----------------------------------------------------------------------------
(* The class as shipped: the configuration of lines 22-24, and the calls   *)
(* of the module's own test lines (calculate_thr_shr, then                 *)
(* calculate_full_bin_prob).                                               *)

InitDefault ==
    \E dens \in DensityFuns, em \in BOOLEAN : Construct(DefaultConfig, dens, em)

NextDefault ==
    \/ CalculateThrShr
    \/ CalculateFullBinProb

SpecDefault == InitDefault /\ [][NextDefault]_vars

-----------------------------------------------------------------------------
(* Properties.                                                             *)

\* the bin and window configuration the instance was constructed under
ConfigOf(m) ==
    [min_b |-> m.min_b, max_b |-> m.max_b, bin_width |-> m.bin_width,
     min_len |-> m.min_len, max_len |-> m.max_len]

\* theoretical_shr as calculate_thr_shr leaves it for distance r and params
ThrOf(m, r, params) == calculate_thr_shr(m, r, params).self.theoretical_shr

\* full_shr_pr as calculate_thr_shr and calculate_full_bin_prob leave it
FullOf(m, r, params) ==
    calculate_full_bin_prob(calculate_thr_shr(m, r, params).self).self.full_shr_pr

\* the last call was a get_bl_shr_interval that returned, and it evaluated
\* with the parameter vector p
QueryReturned == call.op = "get_bl_shr_interval" /\ ret.exc = "none"

EvaluatedWith(p) ==
    /\ InRange(p, 0) /\ InRange(p, 1)
    /\ model.theoretical_shr = ThrOf(model, At(call.r, -1), p)
    /\ \A i \in 1..Len(call.r) :
          LET js == interval_range(model, call.interval)
              full == FullOf(model, call.r[i], p)
          IN  ret.val[i] = Quot(SumSeq([n \in 1..Len(js) |-> At(full, js[n])])
                                    * (call.interval[2] - call.interval[1]),
                                Len(js) * model.bin_width)

\* C1: loglikeobs with C <= 0 or sigma <= 0 returns minus infinity for every
\* observation, one entry per pair, and makes no call of the density function
C1_NonPositiveParams ==
    (call.op = "loglikeobs" /\ (call.params[1] <= 0 \/ call.params[2] <= 0))
        => /\ ret.exc = "none"
           /\ ret.val = [i \in 1..Len(model.endog) |-> NegInf]
           /\ density_calls = 0

C1_Witness ==
    /\ call.op = "loglikeobs"
    /\ call.params = <<1, -1>>
    /\ ret.exc = "none"
    /\ Len(ret.val) = 2
    /\ model.theoretical_shr # <<>>

\* C2: an interval query over <<edge k, edge k+1>> averages exactly bin k and
\* returns, for each distance, full_shr_pr[k] of that bin
C2_OneBinInterval ==
    (QueryReturned /\ WellFormed(ConfigOf(model)))
        => \A k \in 0..(Len(model.mid_bins) - 1) :
              call.interval = <<At(edges_of(model), k),
                                At(edges_of(model), k) + model.bin_width>>
                 => /\ interval_range(model, call.interval) = <<k>>
                    /\ \A i \in 1..Len(call.r) :
                          ret.val[i].num =
                              At(FullOf(model, call.r[i],
                                        interval_params(model, call.params)), k)
                                  * ret.val[i].den

\* C3: under a configuration with min_len or max_len outside [min_b, max_b)
\* or bin_width <= 0 the constructor fails with ConfigurationError, and no
\* instance becomes usable
C3_ConfigurationError ==
    ~WellFormed(ConfigOf(model)) => status = "ConfigurationError"

\* C4: every concurrent pairwise_ll evaluation returns what the same call
\* returns when it runs alone
C4_SameAsAlone ==
    \A t \in Threads :
        pc[t] = "done"
            => LET alone == pairwise_ll(model, targs[t].l, targs[t].exog, targs[t].params)
               IN  tret[t] = [val |-> alone.val, exc |-> alone.exc]

\* the bin grid, the false-positive profile and the transition matrix
Grid(m) == <<m.mid_bins, m.min_ind, m.max_ind, m.bin_width, m.fp_rate, m.trans_mat>>

\* C5: no call of loglikeobs, pairwise_ll, calculate_thr_shr,
\* calculate_full_bin_prob, fit or get_bl_shr_interval changes mid_bins,
\* min_ind, max_ind, bin_width, fp_rate or trans_mat
C5_GridUnchanged == [][Grid(model') = Grid(model)]_vars

C5_Witness ==
    /\ QueryReturned
    /\ model.error_model = TRUE
    /\ model.estimates # <<>>
    /\ model.full_shr_pr # <<>>

\* fit stores the estimate the optimizer returned
FitStores ==
    (call.op = "fit" /\ ret.exc = "none")
        => /\ model.estimates = ret.val.params
           /\ fit_result = ret.val.params

\* a query with params omitted evaluates with the estimate of the last fit
OmittedUsesFit ==
    (QueryReturned /\ call.params = DefaultParams) => EvaluatedWith(fit_result)

\* C6 as claimed: fit stores the returned estimate, a query with params
\* omitted evaluates with the estimate of the most recent fit, and a query
\* with params supplied evaluates with the supplied vector
C6_SuppliedAlwaysUsed ==
    /\ FitStores
    /\ OmittedUsesFit
    /\ (QueryReturned /\ call.params # DefaultParams) => EvaluatedWith(call.params)

\* C6 amended: as claimed, but a supplied vector is used when its first entry
\* is not 0; a supplied vector whose first entry is 0 is taken as omitted
C6_SuppliedNonzeroUsed ==
    /\ FitStores
    /\ OmittedUsesFit
    /\ (QueryReturned /\ call.params # DefaultParams /\ call.params[1] # 0)
          => EvaluatedWith(call.params)
    /\ (QueryReturned /\ call.params[1] = 0) => EvaluatedWith(fit_result)

C6_Witness ==
    /\ QueryReturned
    /\ call.params = <<2, 3>>
    /\ fit_result = <<1, 1>>
    /\ model.estimates = <<1, 1>>

\* C7: with error modeling disabled, full_shr_pr equals theoretical_shr in
\* every bin once calculate_full_bin_prob has run
C7_NoErrorModel ==
    (/\ model.error_model = FALSE
     /\ call.op \in {"calculate_full_bin_prob", "pairwise_ll", "get_bl_shr_interval"}
     /\ ret.exc = "none")
        => model.full_shr_pr = model.theoretical_shr

C7_Witness ==
    /\ model.error_model = FALSE
    /\ call.op = "calculate_full_bin_prob"
    /\ ret.exc = "none"
    /\ \E i \in 1..Len(model.theoretical_shr) : model.theoretical_shr[i] > 0
    /\ \E i \in 1..Len(model.fp_rate) : model.fp_rate[i] > 0

\* C8: under bin_width = 0.1, min_b = 0, max_b = 30.1, min_len = 4.0,
\* max_len = 20.0 the grid has 301 bins, a midpoint edge + bin_width / 2 for
\* every edge, and min_ind = 40 and max_ind = 200 index the edges 4.0 and 20.0
C8_DefaultGrid ==
    LET edges == arange(model.min_b, model.max_b, model.bin_width)
    IN  /\ status = "none"
        /\ Len(edges) = 301
        /\ Len(model.mid_bins) = Len(edges)
        /\ \A i \in 1..Len(edges) : model.mid_bins[i] = edges[i] + half_width(model)
        /\ model.min_ind = 40 /\ model.max_ind = 200
        /\ At(edges, model.min_ind) = model.min_len
        /\ At(edges, model.max_ind) = model.max_len
        /\ model.min_ind < Len(edges) /\ model.max_ind < Len(edges)

C8_Witness ==
    /\ ConfigOf(model) = DefaultConfig
    /\ call.op = "calculate_full_bin_prob"
    /\ ret.exc = "none"
    /\ Len(model.full_shr_pr) = 301

\* no block of the call's list lies in the window's length range
NoBlockInWindow ==
    \A i \in 1..Len(call.l) :
        \/ call.l[i] < At(window_edges(model), 0)
        \/ call.l[i] > At(window_edges(model), -1)

\* C9: for a pair with no block in the window pairwise_ll returns minus pw_nr
\* times the sum of full_shr_pr over the bins [min_ind, max_ind), with a block
\* term of 0, and raises nothing
C9_EmptyObservation ==
    (call.op = "pairwise_ll" /\ window_edges(model) # <<>> /\ NoBlockInWindow)
        => /\ ret.exc = "none"
           /\ ret.val = LogLike(<<>>,
                  -(call.exog[2] * SumSeq(Slice(model.full_shr_pr,
                                                model.min_ind, model.max_ind))))
           /\ model.full_shr_pr = FullOf(model, call.exog[1], call.params)

C9_Witness ==
    /\ call.op = "pairwise_ll"
    /\ call.l = <<5>>
    /\ call.exog = <<1, 2>>
    /\ ConfigOf(model) = ConfigA
    /\ ret.exc = "none"
    /\ ret.val.no_shr < 0

\* C10: every block pairwise_ll retains is scored at an index in
\* [0, max_ind - min_ind)
C10_IndexInWindow ==
    (call.op = "pairwise_ll" /\ WellFormed(ConfigOf(model)))
        => LET bins == window_edges(model)
               indices == block_indices(bins, blocks_of_interest(bins, call.l))
           IN  \A i \in 1..Len(indices) :
                   0 <= indices[i] /\ indices[i] < model.max_ind - model.min_ind

====
